---- MODULE Spec2Model ----
(***************************************************************************)
(* gostore: a Redis-like server.  resp.go is the wire codec, handler.go    *)
(* the command handlers over the two maps SETs and HSETs, aof.go the       *)
(* append-only file, and main (src/unnamed/part_000) the startup replay    *)
(* followed by the request loop of the one accepted connection.            *)
(*                                                                         *)
(* Bytes are one-character strings; a Go string or []byte is a sequence of *)
(* bytes.  A Value is the record of the five fields of resp.go's struct.   *)
(***************************************************************************)
EXTENDS Integers, Sequences, FiniteSets, TLC

(***************************************************************************)
(* Bounds of the model.                                                    *)
(*   BufSize   the size of a bufio.Reader's buffer.  bufio.NewReader uses  *)
(*             4096; the model scales it down so that a log longer than    *)
(*             one buffer and two requests inside one buffer both fit in   *)
(*             the checked state space.                                    *)
(*   MaxSends  the number of requests the client sends on the connection.  *)
(*   MaxStrLen the longest string of the codec's round-trip inputs.        *)
(*   MaxArgs   the longest argument list handed to a handler in            *)
(*             SpecHandlers.                                               *)
(***************************************************************************)
BufSize == 72
MaxSends == 3
MaxStrLen == 2
MaxArgs == 4
MaxCalls == 3

CR == "\r"
LF == "\n"
\* the zero byte make([]byte, n) fills a fresh slice with
NUL == "NUL"

\* resp.go:12-28
\* STRING is a TLA+ builtin, hence the underscore
STRING_ == "+"
ERROR == "-"
INTEGER == ":"
BULK == "$"
ARRAY == "*"

Min(a, b) == IF a <= b THEN a ELSE b

Zeros(n) == [i \in 1..n |-> NUL]

Digits == <<"0", "1", "2", "3", "4", "5", "6", "7", "8", "9">>

DigitValue(b) == (CHOOSE i \in 1..10 : Digits[i] = b) - 1

IsDigit(b) == \E i \in 1..10 : Digits[i] = b

\* strconv.Itoa of a non-negative int (a slice length)
RECURSIVE Itoa(_)
Itoa(n) == IF n < 10 THEN <<Digits[n + 1]>>
           ELSE Itoa(n \div 10) \o <<Digits[(n % 10) + 1]>>

RECURSIVE DigitsValue(_)
DigitsValue(s) == IF s = <<>> THEN 0
                  ELSE 10 * DigitsValue(SubSeq(s, 1, Len(s) - 1)) + DigitValue(s[Len(s)])

\* strconv.ParseInt(s, 10, 64): an optional sign, then one or more decimal
\* digits; anything else is a syntax error.
ParseInt(s) ==
    LET signed == s # <<>> /\ s[1] \in {"+", "-"}
        body == IF signed THEN Tail(s) ELSE s
        ok == body # <<>> /\ \A i \in 1..Len(body) : IsDigit(body[i])
    IN  IF ~ok THEN [ok |-> FALSE, x |-> 0]
        ELSE [ok |-> TRUE,
              x |-> IF signed /\ s[1] = "-" THEN 0 - DigitsValue(body)
                    ELSE DigitsValue(body)]

(***************************************************************************)
(* resp.go:31-42, struct Value.  Value{} is ZeroValue.                     *)
(***************************************************************************)
ZeroValue == [typ |-> "", str |-> <<>>, num |-> 0, bulk |-> <<>>, array |-> <<>>]

StringValue(s) == [ZeroValue EXCEPT !.typ = "string", !.str = s]
ErrorValue(s) == [ZeroValue EXCEPT !.typ = "error", !.str = s]
IntegerValue(n) == [ZeroValue EXCEPT !.typ = "integer", !.num = n]
BulkValue(s) == [ZeroValue EXCEPT !.typ = "bulk", !.bulk = s]
NullValue == [ZeroValue EXCEPT !.typ = "null"]
ArrayValue(a) == [ZeroValue EXCEPT !.typ = "array", !.array = a]

(***************************************************************************)
(* resp.go:189-287, the encoder.                                           *)
(***************************************************************************)
marshalString(v) == <<STRING_>> \o v.str \o <<CR, LF>>

marshalBulk(v) == <<BULK>> \o Itoa(Len(v.bulk)) \o <<CR, LF>> \o v.bulk \o <<CR, LF>>

marshallError(v) == <<ERROR>> \o v.str \o <<CR, LF>>

marshallNull(v) == <<"$", "-", "1", CR, LF>>

RECURSIVE Marshal(_)
RECURSIVE marshalElems(_, _)
\* the loop of marshalArray, resp.go:257-259, from element i on
marshalElems(a, i) == IF i > Len(a) THEN <<>>
                      ELSE Marshal(a[i]) \o marshalElems(a, i + 1)

marshalArray(v) == <<ARRAY>> \o Itoa(Len(v.array)) \o <<CR, LF>> \o marshalElems(v.array, 1)

Marshal(v) ==
    CASE v.typ = "array" -> marshalArray(v)
      [] v.typ = "bulk" -> marshalBulk(v)
      [] v.typ = "string" -> marshalString(v)
      [] v.typ = "null" -> marshallNull(v)
      [] v.typ = "error" -> marshallError(v)
      [] OTHER -> <<>>

(***************************************************************************)
(* A bufio.Reader over a byte source: buf is what the reader has buffered  *)
(* and not handed out yet, src what the source still holds.  hitEnd        *)
(* records that a read found the source exhausted: end of file for the     *)
(* log, a wait for more bytes for an open connection.                      *)
(***************************************************************************)
NewReader(src) == [buf |-> <<>>, src |-> src, hitEnd |-> FALSE]

\* bufio.Reader.fill on an empty buffer: one Read of the source, of at most
\* the buffer's size.
fill(rd) ==
    LET n == Min(BufSize, Len(rd.src))
    IN  [buf |-> SubSeq(rd.src, 1, n),
         src |-> SubSeq(rd.src, n + 1, Len(rd.src)),
         hitEnd |-> rd.hitEnd \/ n = 0]

\* bufio.Reader.ReadByte, once the buffer r has been filled if it was empty
ReadByteOf(r) ==
    IF r.buf = <<>> THEN [err |-> "EOF", b |-> NUL, rd |-> r]
    ELSE [err |-> "nil", b |-> Head(r.buf), rd |-> [r EXCEPT !.buf = Tail(r.buf)]]

\* bufio.Reader.ReadByte
ReadByte(rd) == ReadByteOf(IF rd.buf = <<>> THEN fill(rd) ELSE rd)

\* the copy that ends bufio.Reader.Read: as much of the buffer as fits in the
\* n-byte slice that make zero-filled
CopyOut(r, n, k) ==
    [p |-> SubSeq(r.buf, 1, k) \o Zeros(n - k),
     rd |-> [r EXCEPT !.buf = SubSeq(r.buf, k + 1, Len(r.buf))]]

\* bufio.Reader.Read(p) with len(p) = n and an empty buffer as large as p or
\* smaller: one Read of the source straight into p
ReadDirect(rd, n, k) ==
    [p |-> SubSeq(rd.src, 1, k) \o Zeros(n - k),
     rd |-> [rd EXCEPT !.src = SubSeq(rd.src, k + 1, Len(rd.src)),
                       !.hitEnd = rd.hitEnd \/ k = 0]]

\* the buffer ReaderRead copies from: filled by one Read if it was empty
Refilled(rd) == IF rd.buf = <<>> THEN fill(rd) ELSE rd

\* bufio.Reader.Read(p) with len(p) = n: the bytes come from at most one Read
\* of the source, so fewer than n may be copied
ReaderRead(rd, n) ==
    IF n = 0 THEN [p |-> <<>>, rd |-> rd]
    ELSE IF rd.buf = <<>> /\ n >= BufSize THEN ReadDirect(rd, n, Min(n, Len(rd.src)))
    ELSE CopyOut(Refilled(rd), n, Min(n, Len(Refilled(rd).buf)))

(***************************************************************************)
(* resp.go:64-182, the decoder.  Every operator returns the reader it      *)
(* leaves behind; err is "nil", "EOF" (io.EOF) or "syntax" (the error of   *)
(* strconv.ParseInt).  An operator named ...Of takes the result of the     *)
(* call its source line makes first.                                       *)
(***************************************************************************)
RECURSIVE readLineLoop(_, _)
\* resp.go:68-79, after ReadByte returned rb
readLineOf(rb, line) ==
    IF rb.err # "nil" THEN [line |-> <<>>, n |-> 0, err |-> rb.err, rd |-> rb.rd]
    ELSE LET l == Append(line, rb.b)
         IN  IF Len(l) >= 2 /\ l[Len(l) - 1] = CR
             THEN [line |-> SubSeq(l, 1, Len(l) - 2), n |-> Len(l),
                   err |-> "nil", rd |-> rb.rd]
             ELSE readLineLoop(rb.rd, l)

readLineLoop(rd, line) == readLineOf(ReadByte(rd), line)

readLine(rd) == readLineLoop(rd, <<>>)

\* resp.go:92-107, after readLine returned rl and ParseInt returned pi
readIntegerOf(rl, pi) ==
    IF rl.err # "nil" THEN [x |-> 0, n |-> 0, err |-> rl.err, rd |-> rl.rd]
    ELSE IF ~pi.ok THEN [x |-> 0, n |-> rl.n, err |-> "syntax", rd |-> rl.rd]
    ELSE [x |-> pi.x, n |-> rl.n, err |-> "nil", rd |-> rl.rd]

readIntegerLine(rl) == readIntegerOf(rl, ParseInt(rl.line))

readInteger(rd) == readIntegerLine(readLine(rd))

\* resp.go:176-181: the results of reader.Read and of the readLine of the
\* trailing CRLF are not looked at
readBulkPayload(rr) ==
    [v |-> BulkValue(rr.p), err |-> "nil", panic |-> FALSE, rd |-> readLine(rr.rd).rd]

\* resp.go:170-181, after readInteger returned ri; make([]byte, len) panics
\* on a negative len
readBulkOf(ri) ==
    IF ri.err # "nil"
    THEN [v |-> [ZeroValue EXCEPT !.typ = "bulk"], err |-> ri.err,
          panic |-> FALSE, rd |-> ri.rd]
    ELSE IF ri.x < 0
    THEN [v |-> [ZeroValue EXCEPT !.typ = "bulk"], err |-> "nil",
          panic |-> TRUE, rd |-> ri.rd]
    ELSE readBulkPayload(ReaderRead(ri.rd, ri.x))

readBulk(rd) == readBulkOf(readInteger(rd))

RECURSIVE Read(_)
RECURSIVE readArrayLoop(_, _, _, _)
\* resp.go:153-157, after Read returned r
readArrayElem(r, len, i, arr) ==
    IF r.panic \/ r.err # "nil"
    THEN [v |-> ArrayValue(arr), err |-> r.err, panic |-> r.panic, rd |-> r.rd]
    ELSE readArrayLoop(r.rd, len, i + 1, Append(arr, r.v))

\* the loop of readArray, resp.go:150-159
readArrayLoop(rd, len, i, arr) ==
    IF i >= len
    THEN [v |-> ArrayValue(arr), err |-> "nil", panic |-> FALSE, rd |-> rd]
    ELSE readArrayElem(Read(rd), len, i, arr)

\* resp.go:144-159, after readInteger returned ri
readArrayOf(ri) ==
    IF ri.err # "nil"
    THEN [v |-> [ZeroValue EXCEPT !.typ = "array"], err |-> ri.err,
          panic |-> FALSE, rd |-> ri.rd]
    ELSE readArrayLoop(ri.rd, ri.x, 0, <<>>)

readArray(rd) == readArrayOf(readInteger(rd))

\* resp.go:118-133, after ReadByte returned rb
ReadOf(rb) ==
    IF rb.err # "nil"
    THEN [v |-> ZeroValue, err |-> rb.err, panic |-> FALSE, rd |-> rb.rd]
    ELSE CASE rb.b = ARRAY -> readArray(rb.rd)
           [] rb.b = BULK -> readBulk(rb.rd)
           [] OTHER -> [v |-> ZeroValue, err |-> "nil", panic |-> FALSE, rd |-> rb.rd]

Read(rd) == ReadOf(ReadByte(rd))

(***************************************************************************)
(* handler.go.  A Go map is a function on the set of its keys.             *)
(***************************************************************************)
EmptyMap == [k \in {} |-> <<>>]

MapPut(m, k, v) == [x \in (DOMAIN m) \cup {k} |-> IF x = k THEN v ELSE m[x]]

LowerCase == <<"a", "b", "c", "d", "e", "f", "g", "h", "i", "j", "k", "l", "m",
               "n", "o", "p", "q", "r", "s", "t", "u", "v", "w", "x", "y", "z">>
UpperCase == <<"A", "B", "C", "D", "E", "F", "G", "H", "I", "J", "K", "L", "M",
               "N", "O", "P", "Q", "R", "S", "T", "U", "V", "W", "X", "Y", "Z">>

\* strings.ToUpper
ToUpper(s) == [i \in 1..Len(s) |->
                 IF \E j \in 1..26 : LowerCase[j] = s[i]
                 THEN UpperCase[CHOOSE j \in 1..26 : LowerCase[j] = s[i]]
                 ELSE s[i]]

PING == <<"P", "I", "N", "G">>
SET == <<"S", "E", "T">>
GET == <<"G", "E", "T">>
HSET == <<"H", "S", "E", "T">>
HGET == <<"H", "G", "E", "T">>
HGETALL == <<"H", "G", "E", "T", "A", "L", "L">>

\* the keys of the map Handlers, handler.go:10-23
Handlers == {PING, SET, GET, HSET, HGET, HGETALL}

PONG == <<"P", "O", "N", "G">>
OK == <<"O", "K">>

\* "ERR wrong number of arguments for '<name>' command"
ErrArgs(name) ==
    <<"E", "R", "R", " ", "w", "r", "o", "n", "g", " ", "n", "u", "m", "b", "e", "r",
      " ", "o", "f", " ", "a", "r", "g", "u", "m", "e", "n", "t", "s", " ", "f", "o",
      "r", " ", "'">> \o name \o <<"'", " ", "c", "o", "m", "m", "a", "n", "d">>

ping(args) == IF Len(args) = 0 THEN StringValue(PONG)
              ELSE StringValue(args[1].bulk)

\* set, were it to test len(args) < 2
setAtLeastTwo(args, S) ==
    IF Len(args) < 2
    THEN [res |-> ErrorValue(ErrArgs(<<"s", "e", "t">>)), SETs |-> S]
    ELSE [res |-> StringValue(OK), SETs |-> MapPut(S, args[1].bulk, args[2].bulk)]

\* set returns its Value and the map SETs it leaves
set(args, S) ==
    IF Len(args) # 2
    THEN [res |-> ErrorValue(ErrArgs(<<"s", "e", "t">>)), SETs |-> S]
    ELSE [res |-> StringValue(OK), SETs |-> MapPut(S, args[1].bulk, args[2].bulk)]

\* get, were it to answer a missing key with an empty bulk string
getEmptyForMissing(args, S) ==
    IF Len(args) # 1 THEN ErrorValue(ErrArgs(<<"g", "e", "t">>))
    ELSE IF args[1].bulk \in DOMAIN S THEN BulkValue(S[args[1].bulk])
    ELSE BulkValue(<<>>)

get(args, S) ==
    IF Len(args) # 1 THEN ErrorValue(ErrArgs(<<"g", "e", "t">>))
    ELSE IF args[1].bulk \notin DOMAIN S THEN NullValue
    ELSE BulkValue(S[args[1].bulk])

\* hset, were it to start the hash anew on every call
hsetFresh(args, H) ==
    IF Len(args) # 3
    THEN [res |-> ErrorValue(ErrArgs(<<"h", "s", "e", "t">>)), HSETs |-> H]
    ELSE [res |-> StringValue(OK),
          HSETs |-> MapPut(H, args[1].bulk, MapPut(EmptyMap, args[2].bulk, args[3].bulk))]

\* hset returns its Value and the map HSETs it leaves
hset(args, H) ==
    IF Len(args) # 3
    THEN [res |-> ErrorValue(ErrArgs(<<"h", "s", "e", "t">>)), HSETs |-> H]
    ELSE LET hash == args[1].bulk
             key == args[2].bulk
             value == args[3].bulk
             H1 == IF hash \in DOMAIN H THEN H ELSE MapPut(H, hash, EmptyMap)
         IN  [res |-> StringValue(OK),
              HSETs |-> MapPut(H1, hash, MapPut(H1[hash], key, value))]

hget(args, H) ==
    IF Len(args) # 2 THEN ErrorValue(ErrArgs(<<"h", "g", "e", "t">>))
    ELSE LET hash == args[1].bulk
             key == args[2].bulk
         IN  IF hash \notin DOMAIN H THEN NullValue
             ELSE IF key \notin DOMAIN H[hash] THEN NullValue
             ELSE BulkValue(H[hash][key])

\* every order in which a range loop may visit the keys ks of a map
RECURSIVE Orders(_)
Orders(ks) == IF ks = {} THEN {<<>>}
              ELSE UNION {{<<k>> \o o : o \in Orders(ks \ {k})} : k \in ks}

\* the values the loop of hgetall appends when it visits the keys in order o
RECURSIVE Pairs(_, _)
Pairs(m, o) == IF o = <<>> THEN <<>>
               ELSE <<BulkValue(Head(o)), BulkValue(m[Head(o)])>> \o Pairs(m, Tail(o))

\* hgetall: the set of Values it may return, one per iteration order
hgetall(args, H) ==
    IF Len(args) # 1 THEN {ErrorValue(ErrArgs(<<"h", "g", "e", "t", "a", "l", "l">>))}
    ELSE LET hash == args[1].bulk
         IN  IF hash \notin DOMAIN H THEN {NullValue}
             ELSE {ArrayValue(Pairs(H[hash], o)) : o \in Orders(DOMAIN H[hash])}

\* Handlers[command](args): the Values the call may return
HandlerResults(command, args, S, H) ==
    CASE command = PING -> {ping(args)}
      [] command = SET -> {set(args, S).res}
      [] command = GET -> {get(args, S)}
      [] command = HSET -> {hset(args, H).res}
      [] command = HGET -> {hget(args, H)}
      [] command = HGETALL -> hgetall(args, H)

\* Handlers[command](args): the maps the call leaves
HandlerSETs(command, args, S) == IF command = SET THEN set(args, S).SETs ELSE S

HandlerHSETs(command, args, H) == IF command = HSET THEN hset(args, H).HSETs ELSE H

(***************************************************************************)
(* The state of the server process (main, aof.go) and of its connection.   *)
(***************************************************************************)
VARIABLES
    file,        \* the bytes of database.aof
    fileOff,     \* the offset of the one os.File both Aof.Read and Aof.Write use
    aofRd,       \* what the bufio.Reader of Aof.Read holds buffered
    SETs,        \* handler.go:38
    HSETs,       \* handler.go:96
    conn,        \* bytes the client sent that no Read of aconn has taken yet
    connClosed,  \* the client closed its side
    pc,          \* where main is
    cur,         \* value, the request main read last
    lastResp,    \* the bytes writer.Write wrote in this turn of the loop
    lastVal,     \* the Value those bytes encode
    lastKind,    \* which branch wrote them: "unknown", "handled", or "none" yet
    nSent,       \* history: how many requests the client sent
    sentSet,     \* history: key -> value of the latest two-argument SET sent
    sentHSet,    \* history: hash -> field -> value of the latest three-argument
                 \* HSET sent
    pending,     \* history: for each request lying in conn, its number and
                 \* what sentSet was when it was sent
    curIdx,      \* history: the number of the request cur is
    curSets,     \* history: what sentSet was when cur was sent
    curHSets,    \* history: what sentHSet was when cur was sent
    nOut,        \* history: responses written
    respIdx,     \* history: the number of the request lastResp answers
    logged,      \* history: the requests Aof.Read decoded from the log, and those
                 \* Aof.Write wrote with the offset they were written at
    hsetCalls,   \* history: hash -> field -> value of the three-argument calls
                 \* of hset so far
    replayErr,   \* history: Aof.Read returned a non-nil error
    file0        \* history: the log the process started with

VARIABLES
    cv,          \* codec: the Value under test
    cbytes,      \* codec: its encoding
    cres,        \* codec: the result of decoding cbytes
    cline,       \* codec: the result of readLine on cbytes, and the input left
    cback,       \* codec: the bytes Aof.Write appends for the decoded Value, and
                 \* the result of decoding them
    cpc          \* codec: "idle", "start", "encoded", "decoded" or "lined"

VARIABLES
    hcall,       \* handlers: the command, its arguments and the maps it is called on
    hret,        \* handlers: the Value returned and the maps left
    hpc          \* handlers: "idle", "call" or "returned"

VARIABLES
    mu,          \* locks: the goroutine that holds aof.mu, or "none"
    SETsMu,      \* locks: the writer ("none" or a goroutine) and the readers of
                 \* the RWMutex SETsMu
    HSETsMu,     \* locks: the same of HSETsMu
    gpc,         \* locks: where each goroutine is
    gloc,        \* locks: the local variables of each caller
    crashed,     \* locks: the runtime ended the process with a fatal error
    fclosed,     \* locks: aof.file is closed
    disk         \* locks: the bytes of the log the last file.Sync made durable

serverVars == <<file, fileOff, aofRd, SETs, HSETs, conn, connClosed, pc, cur,
                lastResp, lastVal, lastKind, nSent, sentSet, sentHSet, pending, curIdx, curSets,
                curHSets, nOut, respIdx,
                logged, hsetCalls, replayErr, file0>>

codecVars == <<cv, cbytes, cres, cline, cback, cpc>>

handlerVars == <<hcall, hret, hpc>>

lockVars == <<mu, SETsMu, HSETsMu, gpc, gloc, crashed, fclosed, disk>>

vars == <<serverVars, codecVars, handlerVars, lockVars>>

\* a request as redis-cli sends it: an array of bulk strings
Cmd(name, args) == ArrayValue(<<BulkValue(name)>> \o [i \in 1..Len(args) |-> BulkValue(args[i])])

A == <<"a">>
B == <<"b">>
FOOP == <<"F", "O", "O", "P">>

\* the requests the client of the model sends
Requests ==
    { Cmd(PING, <<>>),
      Cmd(SET, <<A, A>>), Cmd(SET, <<A, B>>), Cmd(<<"s", "e", "t">>, <<B, A>>),
      Cmd(SET, <<A, B, A>>),
      Cmd(GET, <<A>>),
      Cmd(HSET, <<A, A, B>>), Cmd(HSET, <<A, B, A>>),
      Cmd(HGET, <<A, A>>),
      Cmd(HGETALL, <<A>>),
      Cmd(FOOP, <<>>) }

\* an entry whose first length line is not a number
CorruptEntry == <<"*", "3", CR, LF, "$", "x", CR, LF>> \o SET \o <<CR, LF>>
                \o Marshal(BulkValue(A)) \o Marshal(BulkValue(B))

\* the logs the process may find at startup: none, what earlier runs wrote,
\* and damaged ones
InitLogs ==
    { <<>>,
      Marshal(Cmd(SET, <<A, B>>)) \o Marshal(Cmd(HSET, <<A, A, B>>)),
      Marshal(Cmd(SET, <<A, A>>)) \o Marshal(Cmd(SET, <<A, B>>)) \o Marshal(Cmd(SET, <<B, A>>)),
      Marshal(Cmd(SET, <<B, A>>)) \o Marshal(Cmd(HSET, <<A, A, B>>)) \o Marshal(Cmd(SET, <<A, A>>)),
      Marshal(Cmd(SET, <<A, B, A>>)) \o Marshal(Cmd(HSET, <<A, A>>)),
      Marshal(Cmd(SET, <<A, A>>)) \o CorruptEntry \o Marshal(Cmd(SET, <<B, A>>)),
      Marshal(Cmd(SET, <<A, B>>)) \o Marshal(StringValue(OK)) }

\* os.File.Write of bytes b at offset off
WriteAt(f, off, b) ==
    LET end == IF off + Len(b) > Len(f) THEN off + Len(b) ELSE Len(f)
    IN  [i \in 1..end |-> IF i > off /\ i <= off + Len(b) THEN b[i - off] ELSE f[i]]

\* the body of Aof.Write between Lock and Unlock, aof.go:83
AofWriteOf(f, off, bytes) == [file |-> WriteAt(f, off, bytes), off |-> off + Len(bytes)]

AofWrite(f, off, value) == AofWriteOf(f, off, Marshal(value))

\* the write-set test, were it to leave HSET out
IsWriteCommandSetOnly(command) == command = SET

\* the write-set test, were it to hold of every command
IsWriteCommandAny(command) == command \in Handlers

\* the write-set test of main, part_000:104
IsWriteCommand(command) == command = SET \/ command = HSET

\* the callback of main (part_000:41-52) on the value r.v that Read
\* returned with a nil error, and the branches of aof.go:107-116 before it.
\* value.array[0] of an empty array is an index out of range.
ReplayIterOf(r, S, H) ==
    LET command == ToUpper(r.v.array[1].bulk)
        args == Tail(r.v.array)
    IN  [rd |-> r.rd, value |-> r.v,
         kind |-> IF r.panic THEN "panic"
                  ELSE IF r.err = "EOF" THEN "eof"
                  ELSE IF r.err # "nil" THEN "error"
                  ELSE IF Len(r.v.array) = 0 THEN "panic"
                  ELSE "applied",
         SETs |-> IF ~r.panic /\ r.err = "nil" /\ Len(r.v.array) > 0
                     /\ command \in Handlers
                  THEN HandlerSETs(command, args, S) ELSE S,
         HSETs |-> IF ~r.panic /\ r.err = "nil" /\ Len(r.v.array) > 0
                      /\ command \in Handlers
                   THEN HandlerHSETs(command, args, H) ELSE H]

\* one turn of the loop of Aof.Read (aof.go:105-120) on reader rd and maps S, H
ReplayIter(rd, S, H) == ReplayIterOf(Read(rd), S, H)

\* Aof.Read with the callback of main, run to its end on the log f from
\* empty maps
RECURSIVE ReplayLoop(_, _, _)
ReplayLoopOf(it, S, H) ==
    IF it.kind = "applied" THEN ReplayLoop(it.rd, it.SETs, it.HSETs)
    ELSE [kind |-> it.kind, SETs |-> S, HSETs |-> H]

ReplayLoop(rd, S, H) == ReplayLoopOf(ReplayIter(rd, S, H), S, H)

ReplayOf(f) == ReplayLoop(NewReader(f), EmptyMap, EmptyMap)

\* history: the latest two-argument SET per key
NoteSet(ls, value) ==
    IF /\ Len(value.array) = 3
       /\ ToUpper(value.array[1].bulk) = SET
    THEN MapPut(ls, value.array[2].bulk, value.array[3].bulk)
    ELSE ls

\* history: the latest three-argument HSET per hash and field
NoteHSet(lh, value) ==
    IF /\ Len(value.array) = 4
       /\ ToUpper(value.array[1].bulk) = HSET
    THEN MapPut(lh, value.array[2].bulk,
                MapPut(IF value.array[2].bulk \in DOMAIN lh THEN lh[value.array[2].bulk]
                       ELSE EmptyMap,
                       value.array[3].bulk, value.array[4].bulk))
    ELSE lh

ServerInit ==
    /\ file \in InitLogs
    /\ file0 = file
    /\ fileOff = 0
    /\ aofRd = <<>>
    /\ SETs = EmptyMap
    /\ HSETs = EmptyMap
    /\ conn = <<>>
    /\ connClosed = FALSE
    /\ pc = "replay"
    /\ cur = ZeroValue
    /\ lastResp = <<>>
    /\ lastVal = ZeroValue
    /\ lastKind = "none"
    /\ nSent = 0
    /\ sentSet = EmptyMap
    /\ sentHSet = EmptyMap
    /\ pending = <<>>
    /\ curIdx = 0
    /\ curSets = EmptyMap
    /\ curHSets = EmptyMap
    /\ nOut = 0
    /\ respIdx = 0
    /\ logged = {}
    /\ hsetCalls = EmptyMap
    /\ replayErr = FALSE

NoLine == [line |-> <<>>, n |-> 0, err |-> "nil", rest |-> <<>>]

NoBack == [bytes |-> <<>>, v |-> ZeroValue, err |-> "nil", panic |-> FALSE, rest |-> <<>>]

CodecIdle ==
    /\ cv = ZeroValue
    /\ cbytes = <<>>
    /\ cres = [v |-> ZeroValue, err |-> "nil", panic |-> FALSE]
    /\ cline = NoLine
    /\ cback = NoBack
    /\ cpc = "idle"

HandlersIdle ==
    /\ hcall = [command |-> <<>>, args |-> <<>>, SETs |-> EmptyMap, HSETs |-> EmptyMap]
    /\ hret = [res |-> ZeroValue, SETs |-> EmptyMap, HSETs |-> EmptyMap]
    /\ hpc = "idle"

\* the goroutines: two that call into aof.go and handler.go, and the one
\* NewAof starts (aof.go:54)
Callers == {"g1", "g2"}

Flusher == "flush"

Goroutines == Callers \cup {Flusher}

\* a sync.RWMutex nobody holds
FreeRW == [w |-> "none", r |-> {}]

\* the locals of a caller that is in no call
NoLocals == [op |-> "none", value |-> ZeroValue, ok |-> FALSE, keys0 |-> {}, seen |-> {},
             values |-> <<>>, res |-> ZeroValue, snaps |-> {}, done |-> 0,
             reqs |-> <<>>]

LocksIdle ==
    /\ mu = "none"
    /\ SETsMu = FreeRW
    /\ HSETsMu = FreeRW
    /\ gpc = [g \in Goroutines |-> "off"]
    /\ gloc = [g \in Callers |-> NoLocals]
    /\ crashed = FALSE
    /\ fclosed = FALSE
    /\ disk = <<>>

Init == ServerInit /\ CodecIdle /\ HandlersIdle /\ LocksIdle

\* the reader of Aof.Read over the rest of the file
FileReader == [buf |-> aofRd, src |-> SubSeq(file, fileOff + 1, Len(file)), hitEnd |-> FALSE]

clientVars == <<conn, connClosed, nSent, sentSet, sentHSet, pending>>
storeVars == <<SETs, HSETs, hsetCalls>>
respVars == <<lastResp, lastVal, lastKind, nOut, respIdx>>

\* what every turn of Aof.Read leaves of the reader and the file offset
ReplayRead(it) ==
    /\ aofRd' = it.rd.buf
    /\ fileOff' = Len(file) - Len(it.rd.src)

ReplayApplyOf(it) ==
    /\ it.kind = "applied"
    /\ ReplayRead(it)
    /\ SETs' = it.SETs
    /\ HSETs' = it.HSETs
    /\ hsetCalls' = NoteHSet(hsetCalls, it.value)
    /\ logged' = logged \cup {[value |-> it.value, live |-> FALSE, off |-> 0]}

\* Aof.Read: a turn of the loop that decodes a value and calls fn
ReplayApply ==
    /\ pc = "replay"
    /\ ReplayApplyOf(ReplayIter(FileReader, SETs, HSETs))
    /\ UNCHANGED <<file, pc, cur, replayErr, file0, clientVars, respVars, curIdx, curSets, curHSets,
                   codecVars, handlerVars, lockVars>>

ReplayEndOf(it, kind) ==
    /\ it.kind = kind
    /\ ReplayRead(it)

\* Aof.Read: io.EOF ends the loop, Read returns nil
ReplayEOF ==
    /\ pc = "replay"
    /\ ReplayEndOf(ReplayIter(FileReader, SETs, HSETs), "eof")
    /\ pc' = "accept"
    /\ UNCHANGED <<file, cur, replayErr, file0, logged, storeVars, clientVars, respVars,
                   curIdx, curSets, curHSets, codecVars, handlerVars, lockVars>>

\* Aof.Read returns the decoder's error; main does not look at what
\* aof.Read returns (part_000:41) and goes on to Accept
ReplayError ==
    /\ pc = "replay"
    /\ ReplayEndOf(ReplayIter(FileReader, SETs, HSETs), "error")
    /\ replayErr' = TRUE
    /\ pc' = "accept"
    /\ UNCHANGED <<file, cur, file0, logged, storeVars, clientVars, respVars, curIdx, curSets, curHSets,
                   codecVars, handlerVars, lockVars>>

\* a run-time panic inside Aof.Read or its callback ends the process
ReplayPanic ==
    /\ pc = "replay"
    /\ ReplayEndOf(ReplayIter(FileReader, SETs, HSETs), "panic")
    /\ pc' = "panic"
    /\ UNCHANGED <<file, cur, replayErr, file0, logged, storeVars, clientVars, respVars,
                   curIdx, curSets, curHSets, codecVars, handlerVars, lockVars>>

\* tsrv.Accept, part_000:54
Accept ==
    /\ pc = "accept"
    /\ pc' = "read"
    /\ UNCHANGED <<file, fileOff, aofRd, cur, replayErr, file0, logged, storeVars,
                   clientVars, respVars, curIdx, curSets, curHSets, codecVars, handlerVars, lockVars>>

\* the client writes one whole request; it keeps what it has outstanding
\* within one buffer of the server's reader. main looks at the connection
\* in ReadRequest only, so bytes sent during a turn of its loop are bytes
\* sent once it is back at reading.
ClientSend ==
    /\ pc = "read"
    /\ ~connClosed
    /\ nSent < MaxSends
    /\ \E req \in Requests :
          /\ Len(conn) + Len(Marshal(req)) <= BufSize
          /\ conn' = conn \o Marshal(req)
          /\ sentSet' = NoteSet(sentSet, req)
          /\ sentHSet' = NoteHSet(sentHSet, req)
    /\ nSent' = nSent + 1
    /\ pending' = Append(pending, [idx |-> nSent + 1, sets |-> sentSet, hsets |-> sentHSet])
    /\ UNCHANGED <<file, fileOff, aofRd, connClosed, pc, cur, replayErr, file0, logged,
                   storeVars, respVars, curIdx, curSets, curHSets, codecVars, handlerVars, lockVars>>

\* the client closes once the server has taken all it sent and waits for more
ClientClose ==
    /\ pc = "read"
    /\ conn = <<>>
    /\ ~connClosed
    /\ connClosed' = TRUE
    /\ UNCHANGED <<file, fileOff, aofRd, conn, nSent, sentSet, sentHSet, pending, pc, cur, replayErr, file0,
                   logged, storeVars, respVars, curIdx, curSets, curHSets, codecVars, handlerVars, lockVars>>

\* part_000:68-86, after Read returned r
ReadRequestOf(r) ==
    /\ r.rd.hitEnd => connClosed
    /\ conn' = r.rd.src
    /\ pending' = IF r.rd.src = <<>> THEN <<>> ELSE pending
    /\ IF r.panic THEN pc' = "panic" /\ UNCHANGED <<cur, curIdx, curSets, curHSets>>
       ELSE IF r.err # "nil" THEN pc' = "exit" /\ UNCHANGED <<cur, curIdx, curSets, curHSets>>
       ELSE IF r.v.typ # "array" \/ Len(r.v.array) = 0
       THEN pc' = "read" /\ UNCHANGED <<cur, curIdx, curSets, curHSets>>
       ELSE /\ pc' = "dispatch"
            /\ cur' = r.v
            /\ curIdx' = IF pending = <<>> THEN 0 ELSE Head(pending).idx
            /\ curSets' = IF pending = <<>> THEN EmptyMap ELSE Head(pending).sets
            /\ curHSets' = IF pending = <<>> THEN EmptyMap ELSE Head(pending).hsets

\* part_000:63-86: a new reader on aconn, one Read, the two shape tests.
\* The reader is dropped at the end of the turn with whatever it buffered.
ReadRequest ==
    /\ pc = "read"
    /\ conn # <<>> \/ connClosed
    /\ ReadRequestOf(Read(NewReader(conn)))
    /\ lastResp' = <<>>
    /\ lastVal' = ZeroValue
    /\ lastKind' = "none"
    /\ UNCHANGED <<file, fileOff, aofRd, connClosed, nSent, sentSet, sentHSet, replayErr, file0, logged,
                   storeVars, nOut, respIdx, codecVars, handlerVars, lockVars>>

\* the unknown-command branch, were its continue missing: the nil handler
\* is called
UnknownCommandNoContinue ==
    /\ pc = "dispatch"
    /\ ToUpper(cur.array[1].bulk) \notin Handlers
    /\ lastResp' = Marshal(StringValue(<<>>))
    /\ lastVal' = StringValue(<<>>)
    /\ lastKind' = "unknown"
    /\ nOut' = nOut + 1
    /\ respIdx' = curIdx
    /\ pc' = "panic"
    /\ UNCHANGED <<file, fileOff, aofRd, cur, curIdx, curSets, curHSets, replayErr, file0, logged, storeVars,
                   clientVars, codecVars, handlerVars, lockVars>>

\* part_000:92-103: no handler of that name
UnknownCommand ==
    /\ pc = "dispatch"
    /\ ToUpper(cur.array[1].bulk) \notin Handlers
    /\ lastResp' = Marshal(StringValue(<<>>))
    /\ lastVal' = StringValue(<<>>)
    /\ lastKind' = "unknown"
    /\ nOut' = nOut + 1
    /\ respIdx' = curIdx
    /\ pc' = "read"
    /\ UNCHANGED <<file, fileOff, aofRd, cur, curIdx, curSets, curHSets, replayErr, file0, logged, storeVars,
                   clientVars, codecVars, handlerVars, lockVars>>

\* aof.Write(value) returned w
Logged(w) ==
    /\ file' = w.file
    /\ fileOff' = w.off
    /\ logged' = logged \cup {[value |-> cur, live |-> TRUE, off |-> fileOff]}

\* part_000:98-106: the handler exists; SET and HSET go to the log first
LogCommand ==
    /\ pc = "dispatch"
    /\ ToUpper(cur.array[1].bulk) \in Handlers
    /\ IF IsWriteCommand(ToUpper(cur.array[1].bulk))
       THEN Logged(AofWrite(file, fileOff, cur))
       ELSE UNCHANGED <<file, fileOff, logged>>
    /\ pc' = "handle"
    /\ UNCHANGED <<aofRd, cur, curIdx, curSets, curHSets, replayErr, file0, storeVars, clientVars, respVars,
                   codecVars, handlerVars, lockVars>>

\* part_000:108-109: run the handler, write its result
Handle ==
    /\ pc = "handle"
    /\ LET command == ToUpper(cur.array[1].bulk)
           args == Tail(cur.array)
       IN  /\ \E res \in HandlerResults(command, args, SETs, HSETs) :
                 lastResp' = Marshal(res) /\ lastVal' = res
           /\ SETs' = HandlerSETs(command, args, SETs)
           /\ HSETs' = HandlerHSETs(command, args, HSETs)
           /\ hsetCalls' = NoteHSet(hsetCalls, cur)
    /\ lastKind' = "handled"
    /\ nOut' = nOut + 1
    /\ respIdx' = curIdx
    /\ pc' = "read"
    /\ UNCHANGED <<file, fileOff, aofRd, cur, curIdx, curSets, curHSets, replayErr, file0, logged,
                   clientVars, codecVars, handlerVars, lockVars>>

Next ==
    \/ ReplayApply
    \/ ReplayEOF
    \/ ReplayError
    \/ ReplayPanic
    \/ Accept
    \/ ClientSend
    \/ ClientClose
    \/ ReadRequest
    \/ UnknownCommand
    \/ LogCommand
    \/ Handle

Spec == Init /\ [][Next]_vars

(***************************************************************************)
(* The codec on its own: a Value is encoded by Marshal and the bytes are   *)
(* decoded by Read through a fresh reader.                                 *)
(***************************************************************************)
\* the server, not started
ServerOff ==
    /\ file = <<>>
    /\ file0 = <<>>
    /\ fileOff = 0
    /\ aofRd = <<>>
    /\ SETs = EmptyMap
    /\ HSETs = EmptyMap
    /\ conn = <<>>
    /\ connClosed = FALSE
    /\ pc = "off"
    /\ cur = ZeroValue
    /\ lastResp = <<>>
    /\ lastVal = ZeroValue
    /\ lastKind = "none"
    /\ nSent = 0
    /\ sentSet = EmptyMap
    /\ sentHSet = EmptyMap
    /\ pending = <<>>
    /\ curIdx = 0
    /\ curSets = EmptyMap
    /\ curHSets = EmptyMap
    /\ nOut = 0
    /\ respIdx = 0
    /\ logged = {}
    /\ hsetCalls = EmptyMap
    /\ replayErr = FALSE

\* the strings of at most n bytes over a, CR and LF
RECURSIVE Strs(_)
Strs(n) == IF n = 0 THEN {<<>>}
           ELSE Strs(n - 1) \cup {Append(s, b) : s \in Strs(n - 1), b \in {"a", CR, LF}}

\* Values of the five variants; arrays of depth one and two
FlatValues ==
    {StringValue(s) : s \in Strs(MaxStrLen)} \cup {ErrorValue(s) : s \in Strs(MaxStrLen)}
    \cup {IntegerValue(n) : n \in {0 - 1, 0, 7}} \cup {BulkValue(s) : s \in Strs(MaxStrLen)}

Elems == {BulkValue(<<>>), BulkValue(<<"a">>), BulkValue(<<CR, LF>>),
          ArrayValue(<<>>), ArrayValue(<<BulkValue(<<"a">>)>>), StringValue(OK)}

CodecValues ==
    FlatValues \cup {ArrayValue(<<>>)} \cup {ArrayValue(<<e>>) : e \in Elems}
    \cup {ArrayValue(<<e, f>>) : e \in Elems, f \in Elems}

\* the null bulk string, alone and followed by another value in an array
NullValues == {NullValue, ArrayValue(<<NullValue, BulkValue(<<"a">>)>>)}

CodecInit ==
    /\ cv \in CodecValues \cup NullValues
    /\ cbytes = <<>>
    /\ cres = [v |-> ZeroValue, err |-> "nil", panic |-> FALSE]
    /\ cline = NoLine
    /\ cback = NoBack
    /\ cpc = "start"
    /\ ServerOff
    /\ HandlersIdle
    /\ LocksIdle

\* Value.Marshal
Encode ==
    /\ cpc = "start"
    /\ cbytes' = Marshal(cv)
    /\ cpc' = "encoded"
    /\ UNCHANGED <<cv, cres, cline, cback, serverVars, handlerVars, lockVars>>

DecodeOf(r) == cres' = [v |-> r.v, err |-> r.err, panic |-> r.panic]

\* newrESP(bytes).Read()
Decode ==
    /\ cpc = "encoded"
    /\ DecodeOf(Read(NewReader(cbytes)))
    /\ cpc' = "decoded"
    /\ UNCHANGED <<cv, cbytes, cline, cback, serverVars, handlerVars, lockVars>>

DecodeLineOf(rl) ==
    cline' = [line |-> rl.line, n |-> rl.n, err |-> rl.err, rest |-> rl.rd.buf \o rl.rd.src]

\* newrESP(bytes).readLine()
DecodeLine ==
    /\ cpc = "encoded"
    /\ DecodeLineOf(readLine(NewReader(cbytes)))
    /\ cpc' = "lined"
    /\ UNCHANGED <<cv, cbytes, cres, cback, serverVars, handlerVars, lockVars>>

LogEntryOf(bytes, r) ==
    cback' = [bytes |-> bytes, v |-> r.v, err |-> r.err, panic |-> r.panic,
              rest |-> r.rd.buf \o r.rd.src]

\* aof.Write(value) of the Value Read returned, aof.go:83, and the Read of
\* the entry by Aof.Read, aof.go:102-107
LogEntry ==
    /\ cpc = "decoded"
    /\ cres.err = "nil"
    /\ ~cres.panic
    /\ LogEntryOf(Marshal(cres.v), Read(NewReader(Marshal(cres.v))))
    /\ cpc' = "logged"
    /\ UNCHANGED <<cv, cbytes, cres, cline, serverVars, handlerVars, lockVars>>

CodecNext == Encode \/ Decode \/ DecodeLine \/ LogEntry

SpecCodec == CodecInit /\ [][CodecNext]_vars

(***************************************************************************)
(* The handlers on their own: one call of Handlers[command] on an          *)
(* argument list and a pair of maps.                                       *)
(***************************************************************************)
\* argument lists of at most n Values, each a bulk string or a Value{}
RECURSIVE ArgLists(_)
ArgLists(n) ==
    IF n = 0 THEN {<<>>}
    ELSE ArgLists(n - 1)
         \cup {Append(l, v) : l \in ArgLists(n - 1), v \in {BulkValue(A), BulkValue(B), ZeroValue}}

SETsSamples == {EmptyMap, A :> B, (A :> A) @@ (B :> A)}

HSETsSamples == {EmptyMap, A :> (A :> B), A :> ((A :> B) @@ (B :> A))}

HandlersInit ==
    /\ hcall \in [command : Handlers, args : ArgLists(MaxArgs),
                  SETs : SETsSamples, HSETs : HSETsSamples]
    /\ hret = [res |-> ZeroValue, SETs |-> EmptyMap, HSETs |-> EmptyMap]
    /\ hpc = "call"
    /\ ServerOff
    /\ CodecIdle
    /\ LocksIdle

\* handler(args), part_000:108
CallHandler ==
    /\ hpc = "call"
    /\ \E res \in HandlerResults(hcall.command, hcall.args, hcall.SETs, hcall.HSETs) :
          hret' = [res |-> res,
                   SETs |-> HandlerSETs(hcall.command, hcall.args, hcall.SETs),
                   HSETs |-> HandlerHSETs(hcall.command, hcall.args, hcall.HSETs)]
    /\ hpc' = "returned"
    /\ UNCHANGED <<hcall, serverVars, codecVars, lockVars>>

SpecHandlers == HandlersInit /\ [][CallHandler]_vars

(***************************************************************************)
(* The locks: aof.mu, SETsMu and HSETsMu, taken and released step by step  *)
(* by two goroutines that call Aof.Write, Aof.Read with the callback of    *)
(* main, Aof.Close and the handlers, and by the goroutine of NewAof.       *)
(***************************************************************************)
\* what is left of the server's state while only the calls are looked at
serverIdle == <<conn, connClosed, pc, cur, lastResp, lastVal, lastKind, nSent, sentSet,
                sentHSet, pending, curIdx, curSets, curHSets, nOut, respIdx, logged,
                hsetCalls, replayErr, file0>>

\* the calls a goroutine makes, with their argument
LockCalls ==
    {[op |-> "write", value |-> Cmd(SET, <<A, B>>)],
     [op |-> "read", value |-> ZeroValue],
     [op |-> "close", value |-> ZeroValue],
     [op |-> "call", value |-> Cmd(SET, <<A, B>>)],
     [op |-> "call", value |-> Cmd(GET, <<A>>)],
     [op |-> "call", value |-> Cmd(HSET, <<A, A, A>>)],
     [op |-> "call", value |-> Cmd(HSET, <<A, B, A>>)],
     [op |-> "call", value |-> Cmd(HGET, <<A, A>>)],
     [op |-> "call", value |-> Cmd(HGETALL, <<A>>)]}

\* Handlers[command](args) up to the first lock: a handler that rejects
\* its arguments, and ping, return to ret at once
EnterPc(command, args, ret) ==
    CASE command = SET -> IF Len(args) # 2 THEN ret ELSE "set_lock"
      [] command = GET -> IF Len(args) # 1 THEN ret ELSE "get_rlock"
      [] command = HSET -> IF Len(args) # 3 THEN ret ELSE "hset_lock"
      [] command = HGET -> IF Len(args) # 2 THEN ret ELSE "hget_rlock"
      [] command = HGETALL -> IF Len(args) # 1 THEN ret ELSE "hga_rlock"
      [] OTHER -> ret

\* the Value of a handler that returns before it takes a lock
ImmediateRes(value) ==
    LET command == ToUpper(value.array[1].bulk)
        args == Tail(value.array)
    IN  IF command \in Handlers /\ EnterPc(command, args, "ret") = "ret"
        THEN CHOOSE r \in HandlerResults(command, args, EmptyMap, EmptyMap) : TRUE
        ELSE ZeroValue

\* where a call starts
FirstPc(c) ==
    CASE c.op = "write" -> "w_lock"
      [] c.op = "read" -> "r_lock"
      [] c.op = "close" -> "c_lock"
      [] c.op = "call" -> EnterPc(ToUpper(c.value.array[1].bulk), Tail(c.value.array), "idle")

\* where a handler returns to: the loop of Aof.Read when the callback of
\* main called it, else the caller
ReturnPc(g) == IF gloc[g].op = "read" THEN "r_read" ELSE "idle"

\* the arguments of the handler goroutine g is in
Args(g) == Tail(gloc[g].value.array)

\* where aof.Write returns to: main calls the handler next, part_000:108
AfterWrite(g) ==
    IF gloc[g].op = "request"
    THEN EnterPc(ToUpper(gloc[g].value.array[1].bulk), Args(g), "idle")
    ELSE "idle"

\* the inner map of a hash, empty while the hash is not there
HashOf(H, hash) == IF hash \in DOMAIN H THEN H[hash] ELSE EmptyMap

\* history: the contents the hash of an hgetall call has had since the call
SnapsAt(value, H) ==
    IF Len(value.array) = 2 /\ ToUpper(value.array[1].bulk) = HGETALL
    THEN {HashOf(H, value.array[2].bulk)}
    ELSE {}

At(g, p) == gpc[g] = p /\ ~crashed

Goto(g, p) == gpc' = [gpc EXCEPT ![g] = p]

\* sync.Mutex and sync.RWMutex
MutexFree(m) == m = "none"

CanLock(rw) == rw.w = "none" /\ rw.r = {}

CanRLock(rw) == rw.w = "none"

Locked(rw, g) == [rw EXCEPT !.w = g]

RLocked(rw, g) == [rw EXCEPT !.r = @ \cup {g}]

Unlocked(rw) == [rw EXCEPT !.w = "none"]

RUnlocked(rw, g) == [rw EXCEPT !.r = @ \ {g}]

\* the calls made so far
CallsMade == gloc["g1"].done + gloc["g2"].done

\* a goroutine starts a call
Call(g) ==
    /\ At(g, "idle")
    /\ CallsMade < MaxCalls
    /\ \E c \in LockCalls :
          /\ gloc' = [gloc EXCEPT ![g] = [NoLocals EXCEPT !.op = c.op, !.value = c.value,
                                                          !.res = IF c.op = "call"
                                                                  THEN ImmediateRes(c.value)
                                                                  ELSE ZeroValue,
                                                          !.snaps = SnapsAt(c.value, HSETs),
                                                          !.done = gloc[g].done + 1]]
          /\ Goto(g, FirstPc(c))
    /\ UNCHANGED <<mu, SETsMu, HSETsMu, crashed, fclosed, disk, serverVars, codecVars,
                   handlerVars>>

\* aof.mu.Lock(), were it not to wait
MuLockNoWait(g) == TRUE

\* aof.mu.Lock() waits until the mutex is free
MuLock(g) == MutexFree(mu)

\* aof.mu.Lock() of Aof.Write and Aof.Close, aof.go:71, 78
AofLock(g) ==
    /\ \/ At(g, "w_lock") /\ Goto(g, "w_write")
       \/ At(g, "c_lock") /\ Goto(g, "c_close")
    /\ MuLock(g)
    /\ mu' = g
    /\ UNCHANGED <<SETsMu, HSETsMu, gloc, crashed, fclosed, disk, serverVars, codecVars,
                   handlerVars>>

\* the bytes file.Write has put into the file when it is half done
FirstPart(bytes) == SubSeq(bytes, 1, Len(bytes) \div 2)

RestPart(bytes) == SubSeq(bytes, Len(bytes) \div 2 + 1, Len(bytes))

FileWriteOf(w) ==
    /\ file' = w.file
    /\ fileOff' = w.off

\* aof.file.Write(value.Marshal()), aof.go:83: the bytes reach the file one
\* part after the other; on a closed file nothing is written, Write
\* returns the error and the deferred Unlock runs
AofWriteFirst(g) ==
    /\ At(g, "w_write")
    /\ IF fclosed
       THEN Goto(g, AfterWrite(g)) /\ mu' = "none" /\ UNCHANGED <<file, fileOff>>
       ELSE /\ Goto(g, "w_rest")
            /\ mu' = mu
            /\ FileWriteOf(AofWriteOf(file, fileOff, FirstPart(Marshal(gloc[g].value))))
    /\ UNCHANGED <<SETsMu, HSETsMu, gloc, crashed, fclosed, disk, SETs, HSETs, aofRd,
                   serverIdle, codecVars, handlerVars>>

\* the rest of the bytes, and the deferred aof.mu.Unlock()
AofWriteRest(g) ==
    /\ At(g, "w_rest")
    /\ Goto(g, AfterWrite(g))
    /\ mu' = "none"
    /\ FileWriteOf(AofWriteOf(file, fileOff, RestPart(Marshal(gloc[g].value))))
    /\ UNCHANGED <<SETsMu, HSETsMu, gloc, crashed, fclosed, disk, SETs, HSETs, aofRd,
                   serverIdle, codecVars, handlerVars>>

\* aof.file.Close() and the deferred aof.mu.Unlock(), aof.go:72-74
AofClose(g) ==
    /\ At(g, "c_close")
    /\ Goto(g, "idle")
    /\ mu' = "none"
    /\ fclosed' = TRUE
    /\ UNCHANGED <<SETsMu, HSETsMu, gloc, crashed, disk, serverVars, codecVars,
                   handlerVars>>

\* the goroutine of NewAof, aof.go:54-64: aof.mu.Lock()
FlushLock ==
    /\ At(Flusher, "f_lock")
    /\ MuLock(Flusher)
    /\ mu' = Flusher
    /\ Goto(Flusher, "f_sync")
    /\ UNCHANGED <<SETsMu, HSETsMu, gloc, crashed, fclosed, disk, serverVars, codecVars,
                   handlerVars>>

\* aof.file.Sync(), aof.mu.Unlock() and the Sleep before the next turn
FlushSync ==
    /\ At(Flusher, "f_sync")
    /\ disk' = IF fclosed THEN disk ELSE file
    /\ mu' = "none"
    /\ Goto(Flusher, "f_lock")
    /\ UNCHANGED <<SETsMu, HSETsMu, gloc, crashed, fclosed, serverVars, codecVars,
                   handlerVars>>

\* aof.mu.Lock() of Aof.Read, aof.file.Seek(0, io.SeekStart) and
\* newrESP(aof.file), aof.go:95-102
AofReadLock(g) ==
    /\ At(g, "r_lock")
    /\ MuLock(g)
    /\ mu' = g
    /\ Goto(g, "r_read")
    /\ fileOff' = IF fclosed THEN fileOff ELSE 0
    /\ aofRd' = <<>>
    /\ UNCHANGED <<SETsMu, HSETsMu, gloc, crashed, fclosed, disk, file, SETs, HSETs,
                   serverIdle, codecVars, handlerVars>>

\* the locals of a handler that the callback of main calls
Entered(l, value, H) ==
    [l EXCEPT !.value = value, !.ok = FALSE, !.keys0 = {}, !.seen = {}, !.values = <<>>,
              !.res = ImmediateRes(value), !.snaps = SnapsAt(value, H)]

\* one turn of the loop of Aof.Read, aof.go:105-120, and the callback of
\* main up to the first lock of the handler, part_000:41-52; when Read
\* returns, the deferred aof.mu.Unlock() runs
AofReadTurnOf(g, it) ==
    /\ ReplayRead(it)
    /\ mu' = IF it.kind \in {"eof", "error"} THEN "none" ELSE mu
    /\ crashed' = (it.kind = "panic")
    /\ gloc' = IF it.kind = "applied"
               THEN [gloc EXCEPT ![g] = Entered(gloc[g], it.value, HSETs)]
               ELSE gloc
    /\ Goto(g, IF it.kind = "applied"
               THEN EnterPc(ToUpper(it.value.array[1].bulk), Tail(it.value.array), "r_read")
               ELSE IF it.kind = "panic" THEN "r_read"
               ELSE "idle")

AofReadTurn(g) ==
    /\ At(g, "r_read")
    /\ ~fclosed
    /\ AofReadTurnOf(g, ReplayIter(FileReader, SETs, HSETs))
    /\ UNCHANGED <<SETsMu, HSETsMu, fclosed, disk, file, SETs, HSETs,
                   serverIdle, codecVars, handlerVars>>

\* reader.Read() on a closed file: an error that is not io.EOF
AofReadClosed(g) ==
    /\ At(g, "r_read")
    /\ fclosed
    /\ Goto(g, "idle")
    /\ mu' = "none"
    /\ UNCHANGED <<SETsMu, HSETsMu, gloc, crashed, fclosed, disk, serverVars, codecVars,
                   handlerVars>>

\* SETsMu.Lock() of set, handler.go:57
SetLock(g) ==
    /\ At(g, "set_lock")
    /\ CanLock(SETsMu)
    /\ SETsMu' = Locked(SETsMu, g)
    /\ Goto(g, "set_write")
    /\ UNCHANGED <<mu, HSETsMu, gloc, crashed, fclosed, disk, serverVars, codecVars,
                   handlerVars>>

\* SETs[key] = value, SETsMu.Unlock() and the return of set,
\* handler.go:58-64
SetWrite(g) ==
    /\ At(g, "set_write")
    /\ SETs' = set(Args(g), SETs).SETs
    /\ gloc' = [gloc EXCEPT ![g].res = set(Args(g), SETs).res]
    /\ SETsMu' = Unlocked(SETsMu)
    /\ Goto(g, ReturnPc(g))
    /\ UNCHANGED <<mu, HSETsMu, crashed, fclosed, disk, file, fileOff, aofRd, HSETs,
                   serverIdle, codecVars, handlerVars>>

\* SETsMu.RLock() of get, handler.go:80
GetRLock(g) ==
    /\ At(g, "get_rlock")
    /\ CanRLock(SETsMu)
    /\ SETsMu' = RLocked(SETsMu, g)
    /\ Goto(g, "get_read")
    /\ UNCHANGED <<mu, HSETsMu, gloc, crashed, fclosed, disk, serverVars, codecVars,
                   handlerVars>>

\* value, ok := SETs[key], SETsMu.RUnlock() and the return of get,
\* handler.go:82-92
GetRead(g) ==
    /\ At(g, "get_read")
    /\ gloc' = [gloc EXCEPT ![g].res = get(Args(g), SETs)]
    /\ SETsMu' = RUnlocked(SETsMu, g)
    /\ Goto(g, ReturnPc(g))
    /\ UNCHANGED <<mu, HSETsMu, crashed, fclosed, disk, serverVars, codecVars,
                   handlerVars>>

\* HSETsMu.Lock() of hset, handler.go:115
HsetLock(g) ==
    /\ At(g, "hset_lock")
    /\ CanLock(HSETsMu)
    /\ HSETsMu' = Locked(HSETsMu, g)
    /\ Goto(g, "hset_write")
    /\ UNCHANGED <<mu, SETsMu, gloc, crashed, fclosed, disk, serverVars, codecVars,
                   handlerVars>>

\* the goroutines that are in hgetall on the hash
InHgetall(h, hash) ==
    /\ gpc[h] \in {"hga_rlock", "hga_read", "hga_range", "hga_iter"}
    /\ Args(h)[1].bulk = hash

\* HSETs[hash][key] = value with the map made first, HSETsMu.Unlock() and
\* the return of hset, handler.go:116-123
HsetWriteOf(g, H) ==
    /\ HSETs' = H
    /\ gloc' = [h \in Callers |->
                 IF h = g THEN [gloc[g] EXCEPT !.res = StringValue(OK)]
                 ELSE IF InHgetall(h, Args(g)[1].bulk)
                 THEN [gloc[h] EXCEPT !.snaps = @ \cup {H[Args(g)[1].bulk]}]
                 ELSE gloc[h]]

HsetWrite(g) ==
    /\ At(g, "hset_write")
    /\ HsetWriteOf(g, hset(Args(g), HSETs).HSETs)
    /\ HSETsMu' = Unlocked(HSETsMu)
    /\ Goto(g, ReturnPc(g))
    /\ UNCHANGED <<mu, SETsMu, crashed, fclosed, disk, file, fileOff, aofRd, SETs,
                   serverIdle, codecVars, handlerVars>>

\* the write of hset meets the range loop of hgetall on the same map: the
\* runtime may end the process, "concurrent map iteration and map write"
HsetWriteFatal(g) ==
    /\ At(g, "hset_write")
    /\ \E h \in Callers \ {g} : gpc[h] = "hga_iter" /\ Args(h)[1].bulk = Args(g)[1].bulk
    /\ crashed' = TRUE
    /\ UNCHANGED <<mu, SETsMu, HSETsMu, gpc, gloc, fclosed, disk, serverVars, codecVars,
                   handlerVars>>

\* HSETsMu.RLock() of hget, handler.go:148
HgetRLock(g) ==
    /\ At(g, "hget_rlock")
    /\ CanRLock(HSETsMu)
    /\ HSETsMu' = RLocked(HSETsMu, g)
    /\ Goto(g, "hget_read")
    /\ UNCHANGED <<mu, SETsMu, gloc, crashed, fclosed, disk, serverVars, codecVars,
                   handlerVars>>

\* value, ok := HSETs[hash][key], HSETsMu.RUnlock() and the return of
\* hget, handler.go:150-161
HgetRead(g) ==
    /\ At(g, "hget_read")
    /\ gloc' = [gloc EXCEPT ![g].res = hget(Args(g), HSETs)]
    /\ HSETsMu' = RUnlocked(HSETsMu, g)
    /\ Goto(g, ReturnPc(g))
    /\ UNCHANGED <<mu, SETsMu, crashed, fclosed, disk, serverVars, codecVars,
                   handlerVars>>

\* HSETsMu.RLock() of hgetall, handler.go:181
HgaRLock(g) ==
    /\ At(g, "hga_rlock")
    /\ CanRLock(HSETsMu)
    /\ HSETsMu' = RLocked(HSETsMu, g)
    /\ Goto(g, "hga_read")
    /\ UNCHANGED <<mu, SETsMu, gloc, crashed, fclosed, disk, serverVars, codecVars,
                   handlerVars>>

\* value, ok := HSETs[hash], handler.go:183: value is the map itself, not
\* a copy of it; HSETsMu.RUnlock(), handler.go:185, and the return of null
\* when the hash is not there, handler.go:188-191
HgaRead(g) ==
    /\ At(g, "hga_read")
    /\ HSETsMu' = RUnlocked(HSETsMu, g)
    /\ gloc' = [gloc EXCEPT ![g].ok = Args(g)[1].bulk \in DOMAIN HSETs,
                            ![g].res = IF Args(g)[1].bulk \in DOMAIN HSETs THEN @
                                       ELSE NullValue]
    /\ Goto(g, IF Args(g)[1].bulk \in DOMAIN HSETs THEN "hga_range" ELSE ReturnPc(g))
    /\ UNCHANGED <<mu, SETsMu, crashed, fclosed, disk, serverVars, codecVars, handlerVars>>

\* the range loop starts, handler.go:196: the entries the map has now are
\* visited, an entry made later may be visited or not
HgaRange(g) ==
    /\ At(g, "hga_range")
    /\ gloc' = [gloc EXCEPT ![g].keys0 = DOMAIN HSETs[Args(g)[1].bulk]]
    /\ Goto(g, "hga_iter")
    /\ UNCHANGED <<mu, SETsMu, HSETsMu, crashed, fclosed, disk, serverVars, codecVars,
                   handlerVars>>

\* one turn of the range loop, handler.go:196-200
HgaNext(g) ==
    /\ At(g, "hga_iter")
    /\ \E k \in DOMAIN HSETs[Args(g)[1].bulk] \ gloc[g].seen :
          gloc' = [gloc EXCEPT ![g].seen = @ \cup {k},
                               ![g].values = @ \o <<BulkValue(k),
                                                     BulkValue(HSETs[Args(g)[1].bulk][k])>>]
    /\ UNCHANGED <<mu, SETsMu, HSETsMu, gpc, crashed, fclosed, disk, serverVars, codecVars,
                   handlerVars>>

\* the loop ends and hgetall returns the array, handler.go:203
HgaReturn(g) ==
    /\ At(g, "hga_iter")
    /\ gloc[g].keys0 \subseteq gloc[g].seen
    /\ gloc' = [gloc EXCEPT ![g].res = ArrayValue(gloc[g].values)]
    /\ Goto(g, ReturnPc(g))
    /\ UNCHANGED <<mu, SETsMu, HSETsMu, crashed, fclosed, disk, serverVars, codecVars,
                   handlerVars>>

\* the server after NewAof and the replay of a log that holds HSET a a b
ServerReplayed ==
    /\ file = Marshal(Cmd(HSET, <<A, A, B>>))
    /\ file0 = file
    /\ fileOff = Len(file)
    /\ aofRd = <<>>
    /\ SETs = EmptyMap
    /\ HSETs = MapPut(EmptyMap, A, MapPut(EmptyMap, A, B))
    /\ conn = <<>>
    /\ connClosed = FALSE
    /\ pc = "off"
    /\ cur = ZeroValue
    /\ lastResp = <<>>
    /\ lastVal = ZeroValue
    /\ lastKind = "none"
    /\ nSent = 0
    /\ sentSet = EmptyMap
    /\ sentHSet = EmptyMap
    /\ pending = <<>>
    /\ curIdx = 0
    /\ curSets = EmptyMap
    /\ curHSets = EmptyMap
    /\ nOut = 0
    /\ respIdx = 0
    /\ logged = {}
    /\ hsetCalls = EmptyMap
    /\ replayErr = FALSE

LocksInit ==
    /\ ServerReplayed
    /\ CodecIdle
    /\ HandlersIdle
    /\ mu = "none"
    /\ SETsMu = FreeRW
    /\ HSETsMu = FreeRW
    /\ gpc = [g \in Goroutines |-> IF g = Flusher THEN "f_lock" ELSE "idle"]
    /\ gloc = [g \in Callers |-> NoLocals]
    /\ crashed = FALSE
    /\ fclosed = FALSE
    /\ disk = <<>>

LocksNext ==
    \/ FlushLock
    \/ FlushSync
    \/ \E g \in Callers :
          \/ Call(g)
          \/ AofLock(g)
          \/ AofReadLock(g)
          \/ AofWriteFirst(g)
          \/ AofWriteRest(g)
          \/ AofClose(g)
          \/ AofReadTurn(g)
          \/ AofReadClosed(g)
          \/ SetLock(g)
          \/ SetWrite(g)
          \/ GetRLock(g)
          \/ GetRead(g)
          \/ HsetLock(g)
          \/ HsetWrite(g)
          \/ HsetWriteFatal(g)
          \/ HgetRLock(g)
          \/ HgetRead(g)
          \/ HgaRLock(g)
          \/ HgaRead(g)
          \/ HgaRange(g)
          \/ HgaNext(g)
          \/ HgaReturn(g)

SpecLocks == LocksInit /\ [][LocksNext]_vars

(***************************************************************************)
(* Two connections served at once: each goroutine runs the body of the     *)
(* loop of main on its requests, aof.Write for SET and HSET and then the   *)
(* handler, beside the goroutine of NewAof.                                *)
(***************************************************************************)
\* the requests the connections send
ConnRequests ==
    { Cmd(SET, <<A, B>>), Cmd(SET, <<A, A>>), Cmd(GET, <<A>>),
      Cmd(HSET, <<A, A, B>>), Cmd(HGETALL, <<A>>) }

\* history: the SET and HSET requests of a connection, in order
NoteReq(reqs, v) ==
    IF IsWriteCommand(ToUpper(v.array[1].bulk)) THEN Append(reqs, v) ELSE reqs

\* part_000:92-109 up to the first lock: the request has been read, its
\* command has a handler
Request(g) ==
    /\ At(g, "idle")
    /\ CallsMade < MaxCalls
    /\ \E v \in ConnRequests :
          /\ gloc' = [gloc EXCEPT ![g] = [NoLocals EXCEPT !.op = "request", !.value = v,
                                                          !.res = ImmediateRes(v),
                                                          !.snaps = SnapsAt(v, HSETs),
                                                          !.done = gloc[g].done + 1,
                                                          !.reqs = NoteReq(gloc[g].reqs, v)]]
          /\ Goto(g, IF IsWriteCommand(ToUpper(v.array[1].bulk)) THEN "w_lock"
                     ELSE EnterPc(ToUpper(v.array[1].bulk), Tail(v.array), "idle"))
    /\ UNCHANGED <<mu, SETsMu, HSETsMu, crashed, fclosed, disk, serverVars, codecVars,
                   handlerVars>>

\* the server after NewAof and the replay of an empty log
ConnsInit ==
    /\ ServerOff
    /\ CodecIdle
    /\ HandlersIdle
    /\ mu = "none"
    /\ SETsMu = FreeRW
    /\ HSETsMu = FreeRW
    /\ gpc = [g \in Goroutines |-> IF g = Flusher THEN "f_lock" ELSE "idle"]
    /\ gloc = [g \in Callers |-> NoLocals]
    /\ crashed = FALSE
    /\ fclosed = FALSE
    /\ disk = <<>>

\* the steps of a connection that wait for a lock
ConnLock(g) ==
    \/ AofLock(g)
    \/ SetLock(g)
    \/ GetRLock(g)
    \/ HsetLock(g)
    \/ HgaRLock(g)

\* the steps of a connection that wait for nothing
ConnStep(g) ==
    \/ AofWriteFirst(g)
    \/ AofWriteRest(g)
    \/ SetWrite(g)
    \/ GetRead(g)
    \/ HsetWrite(g)
    \/ HgaRead(g)
    \/ HgaRange(g)
    \/ HgaNext(g)
    \/ HgaReturn(g)

ConnsNext ==
    \/ FlushLock
    \/ FlushSync
    \/ \E g \in Callers :
          \/ Request(g)
          \/ ConnLock(g)
          \/ ConnStep(g)
          \/ HsetWriteFatal(g)

SpecConns == ConnsInit /\ [][ConnsNext]_vars

\* sync.Mutex and sync.RWMutex hand a lock that is freed again and again to
\* a goroutine that waits for it; a goroutine that can run does run
FairConns ==
    /\ SpecConns
    /\ WF_vars(FlushSync)
    /\ SF_vars(FlushLock)
    /\ \A g \in Callers : SF_vars(ConnLock(g)) /\ WF_vars(ConnStep(g))

(***************************************************************************)
(* The claims.                                                             *)
(***************************************************************************)
IsPrefix(s, t) == Len(s) <= Len(t) /\ SubSeq(t, 1, Len(s)) = s

\* the wire form of a non-null bulk string, spec section 6
WireBulk(s) == <<"$">> \o Itoa(Len(s)) \o <<CR, LF>> \o s \o <<CR, LF>>

WireOK == <<"+", "O", "K", CR, LF>>

\* C1: the response to GET k is the bulk string of the value of the latest
\* two-argument SET k v the client sent on the connection before it, and the
\* response to a two-argument SET is the simple string OK.
C1_LastWriteWins ==
    (lastKind = "handled" /\ curIdx > 0) =>
        LET command == ToUpper(cur.array[1].bulk)
            args == Tail(cur.array)
        IN  /\ (command = GET /\ Len(args) = 1 /\ args[1].bulk \in DOMAIN curSets)
                  => lastResp = WireBulk(curSets[args[1].bulk])
            /\ (command = SET /\ Len(args) = 2) => lastResp = WireOK

\* C2: when the process started on an empty log and is between two requests,
\* replaying the log it has written, from empty maps, gives the maps it has.
C2_ReplayEquivalence ==
    (file0 = <<>> /\ pc = "read") =>
        /\ ReplayOf(file).SETs = SETs
        /\ ReplayOf(file).HSETs = HSETs

\* the entry was read from the log, or its encoding lies in the log where
\* Aof.Write put it
InLog(r) ==
    r.live => SubSeq(file, r.off + 1, r.off + Len(Marshal(r.value))) = Marshal(r.value)

LoggedSet(k, v) ==
    \E r \in logged : /\ Len(r.value.array) = 3
                      /\ ToUpper(r.value.array[1].bulk) = SET
                      /\ r.value.array[2].bulk = k
                      /\ r.value.array[3].bulk = v
                      /\ InLog(r)

LoggedHSet(h, f, v) ==
    \E r \in logged : /\ Len(r.value.array) = 4
                      /\ ToUpper(r.value.array[1].bulk) = HSET
                      /\ r.value.array[2].bulk = h
                      /\ r.value.array[3].bulk = f
                      /\ r.value.array[4].bulk = v
                      /\ InLog(r)

\* C3: every entry of SETs and every field of every hash of HSETs is that of
\* a SET or HSET request that is in the log already: read from it by the
\* replay, or written to it by Aof.Write before the handler ran.
C3_LoggedBeforeVisible ==
    /\ \A k \in DOMAIN SETs : LoggedSet(k, SETs[k])
    /\ \A h \in DOMAIN HSETs : \A f \in DOMAIN HSETs[h] : LoggedHSet(h, f, HSETs[h][f])

\* a started-empty run that has answered an HSET and holds its field
C3_Witness ==
    /\ file0 = <<>>
    /\ lastKind = "handled"
    /\ cur = Cmd(HSET, <<A, A, B>>)
    /\ HSETs = (A :> (A :> B))
    /\ file = Marshal(cur)

\* C4: decoding the encoding of a non-null Value gives the Value back, without
\* error.
C4_RoundTrip ==
    (cpc = "decoded" /\ cv \in CodecValues)
        => (cres.err = "nil" /\ ~cres.panic /\ cres.v = cv)

\* C5: the response to a request whose command has no handler is an Error:
\* its wire form begins with '-'.
C5_UnknownCommandError ==
    lastKind = "unknown" => (lastResp # <<>> /\ lastResp[1] = ERROR)

\* C6: while main holds a request whose command has no handler, no step
\* changes SETs, HSETs or the log, and main goes back to reading requests.
C6_UnknownCommandFrame ==
    [][(pc = "dispatch" /\ ToUpper(cur.array[1].bulk) \notin Handlers)
         => (SETs' = SETs /\ HSETs' = HSETs /\ file' = file
             /\ pc' \in {"dispatch", "read"})]_vars

\* an unknown command was answered while the maps and the log held
\* something, and main is back at reading requests
C6_Witness ==
    /\ lastKind = "unknown"
    /\ cur = Cmd(FOOP, <<>>)
    /\ pc = "read"
    /\ SETs # EmptyMap
    /\ HSETs # EmptyMap
    /\ file # <<>>

\* the number of arguments each command expects
ExpectedArgs(command) ==
    CASE command = SET -> 2
      [] command = GET -> 1
      [] command = HSET -> 3
      [] command = HGET -> 2
      [] command = HGETALL -> 1

\* C7: a call of SET, GET, HSET, HGET or HGETALL with another number of
\* arguments than it expects returns an Error and leaves both maps as they were.
C7_ArityMismatch ==
    (/\ hpc = "returned"
     /\ hcall.command \in {SET, GET, HSET, HGET, HGETALL}
     /\ Len(hcall.args) # ExpectedArgs(hcall.command))
        => /\ hret.res.typ = "error"
           /\ hret.SETs = hcall.SETs
           /\ hret.HSETs = hcall.HSETs

\* SET called with three arguments on a non-empty map returned an Error
C7_Witness ==
    /\ hpc = "returned"
    /\ hcall.command = SET
    /\ Len(hcall.args) = 3
    /\ hcall.SETs # EmptyMap
    /\ hret.res = ErrorValue(ErrArgs(<<"s", "e", "t">>))

\* C8: once Aof.Read has returned an error other than io.EOF, no step
\* answers a request, changes SETs or HSETs, or writes the log.
C8_ReplayErrorAborts ==
    [][replayErr => (nOut' = nOut /\ SETs' = SETs /\ HSETs' = HSETs /\ file' = file)]_vars

\* C9: every step leaves the log it found as a prefix of the log it leaves.
C9_AppendOnly == [][IsPrefix(file, file')]_vars

\* C10: the k-th response written answers the k-th request sent.
C10_ResponsesInOrder == nOut > 0 => respIdx = nOut

\* C11: the response to HGET h f is the bulk string of the value of the
\* latest three-argument HSET h f v the client sent on the connection before
\* it; on a process started with an empty log it is the null bulk string when
\* no such HSET was sent.
C11_HashLastWriteWins ==
    (/\ lastKind = "handled"
     /\ curIdx > 0
     /\ ToUpper(cur.array[1].bulk) = HGET
     /\ Len(cur.array) = 3)
        => IF /\ cur.array[2].bulk \in DOMAIN curHSets
              /\ cur.array[3].bulk \in DOMAIN curHSets[cur.array[2].bulk]
           THEN lastResp = WireBulk(curHSets[cur.array[2].bulk][cur.array[3].bulk])
           ELSE file0 = <<>> => lastResp = Marshal(NullValue)

\* the odd positions of array arr at which field f stands followed by value v
PairAt(arr, f, v) ==
    {i \in 1..Len(arr) : /\ i % 2 = 1
                         /\ i < Len(arr)
                         /\ arr[i] = BulkValue(f)
                         /\ arr[i + 1] = BulkValue(v)}

\* C12: the response to HGETALL h, when the calls of hset on h so far wrote N
\* distinct fields, is an array of 2N bulk strings in which every field
\* stands exactly once, at an odd position, followed by the value written last
\* for it.
C12_HGetAllPairs ==
    (/\ lastKind = "handled"
     /\ ToUpper(cur.array[1].bulk) = HGETALL
     /\ Len(cur.array) = 2
     /\ cur.array[2].bulk \in DOMAIN hsetCalls)
        => LET m == hsetCalls[cur.array[2].bulk]
           IN  /\ lastVal.typ = "array"
               /\ Len(lastVal.array) = 2 * Cardinality(DOMAIN m)
               /\ \A i \in 1..Len(lastVal.array) : lastVal.array[i].typ = "bulk"
               /\ \A f \in DOMAIN m : Cardinality(PairAt(lastVal.array, f, m[f])) = 1
               /\ lastResp = Marshal(lastVal)

\* HGETALL a answered with four elements after HSET a a b and HSET a b a
C12_Witness ==
    /\ lastKind = "handled"
    /\ cur = Cmd(HGETALL, <<A>>)
    /\ hsetCalls = (A :> ((A :> B) @@ (B :> A)))
    /\ Len(lastVal.array) = 4

\* the wire form of the null bulk string, spec section 6
WireNull == <<"$", "-", "1", CR, LF>>

\* C13: get called with one argument, a key that is not in SETs, returns the
\* null Value, whose encoding is $-1 CRLF: not an Error, not an empty bulk
\* string; and it leaves SETs and HSETs as they were.
C13_GetMissingIsNull ==
    (/\ hpc = "returned"
     /\ hcall.command = GET
     /\ Len(hcall.args) = 1
     /\ hcall.args[1].bulk \notin DOMAIN hcall.SETs)
        => /\ hret.res.typ = "null"
           /\ Marshal(hret.res) = WireNull
           /\ Marshal(hret.res) # Marshal(BulkValue(<<>>))
           /\ hret.SETs = hcall.SETs
           /\ hret.HSETs = hcall.HSETs

\* GET b returned null on a map that holds only a
C13_Witness ==
    /\ hpc = "returned"
    /\ hcall.command = GET
    /\ hcall.args = <<BulkValue(B)>>
    /\ hcall.SETs = (A :> B)
    /\ hret.res = NullValue

\* C14: no step taken while main holds a PING, GET, HGET or HGETALL request
\* changes the log, SETs or HSETs; and a step of the request loop that changes
\* the log is one that holds a SET or HSET request.
C14_OnlyWritesLogged ==
    [][/\ (/\ pc \in {"dispatch", "handle"}
           /\ ToUpper(cur.array[1].bulk) \in {PING, GET, HGET, HGETALL})
              => (file' = file /\ SETs' = SETs /\ HSETs' = HSETs)
       /\ file' # file
              => (pc = "dispatch" /\ ToUpper(cur.array[1].bulk) \in {SET, HSET})]_vars

\* an HGET was answered by a process whose log and maps hold an HSET
C14_Witness ==
    /\ lastKind = "handled"
    /\ cur = Cmd(HGET, <<A, A>>)
    /\ lastVal = BulkValue(B)
    /\ file = Marshal(Cmd(HSET, <<A, A, B>>))
    /\ HSETs = (A :> (A :> B))

\* the well-formed logs among InitLogs, as the commands earlier runs logged
LoggedCommands ==
    { <<>>,
      <<Cmd(SET, <<A, B>>), Cmd(HSET, <<A, A, B>>)>>,
      <<Cmd(SET, <<A, A>>), Cmd(SET, <<A, B>>), Cmd(SET, <<B, A>>)>>,
      <<Cmd(SET, <<B, A>>), Cmd(HSET, <<A, A, B>>), Cmd(SET, <<A, A>>)>>,
      <<Cmd(SET, <<A, B, A>>), Cmd(HSET, <<A, A>>)>> }

RECURSIVE MarshalAll(_)
MarshalAll(es) == IF es = <<>> THEN <<>> ELSE Marshal(Head(es)) \o MarshalAll(Tail(es))

\* the maps left by the handlers of the commands es, run in order on S and H
RECURSIVE ApplyAll(_, _, _)
ApplyAll(es, S, H) ==
    IF es = <<>> THEN [SETs |-> S, HSETs |-> H]
    ELSE ApplyAll(Tail(es),
                  HandlerSETs(ToUpper(Head(es).array[1].bulk), Tail(Head(es).array), S),
                  HandlerHSETs(ToUpper(Head(es).array[1].bulk), Tail(Head(es).array), H))

\* C15: when main holds the first client request, before any response, the
\* maps are those left by every command of the log it started with, applied
\* in log order to empty maps.
C15_ReplayBeforeServing ==
    \A es \in LoggedCommands :
        (file0 = MarshalAll(es) /\ pc = "dispatch" /\ nOut = 0)
            => /\ SETs = ApplyAll(es, EmptyMap, EmptyMap).SETs
               /\ HSETs = ApplyAll(es, EmptyMap, EmptyMap).HSETs

\* C17: decoding bytes whose first byte is neither '*' nor '$' fails with an
\* error other than io.EOF.
C17_UnknownMarkerFails ==
    (cpc = "decoded" /\ cbytes # <<>> /\ cbytes[1] \notin {ARRAY, BULK})
        => (~cres.panic /\ cres.err \notin {"nil", "EOF"})

\* C18: decoding the encoding of the null bulk string, alone or as an array
\* element followed by another value, returns it without failing, the value
\* after it is decoded too, and it differs from the empty bulk string.
C18_NegativeLengthIsNull ==
    (cpc = "decoded" /\ cv \in NullValues)
        => /\ ~cres.panic
           /\ cres.err = "nil"
           /\ cres.v = cv
           /\ cres.v # BulkValue(<<>>)

\* the goroutines inside a critical section of the log: the bytes of an
\* append, the close, the loop of the replay with its callback, the sync
InLogSection(g) ==
    \/ gpc[g] \in {"w_write", "w_rest", "c_close", "r_read", "f_sync"}
    \/ g \in Callers /\ gloc[g].op = "read" /\ gpc[g] \notin {"idle", "r_lock"}

\* C16: appends to the log, the periodic flush, the replay and the close
\* exclude one another: at most one goroutine is inside its critical
\* section of the log, so two appends never write their bytes in turns and
\* the flush never syncs while an append is partly written.
C16_LogMutualExclusion ==
    /\ \A g \in Goroutines : \A h \in Goroutines \ {g} :
          ~(InLogSection(g) /\ InLogSection(h))
    /\ gpc[Flusher] = "f_sync" => \A g \in Callers : gpc[g] # "w_rest"

\* an append is partly written while another append and the flush wait
C16_Witness ==
    /\ gpc["g1"] = "w_rest"
    /\ Len(file) > Len(file0)
    /\ gpc["g2"] = "w_lock"
    /\ gpc[Flusher] = "f_lock"
    /\ disk = file0

\* the locks a goroutine holds
HeldBy(g) ==
    (IF mu = g THEN {"mu"} ELSE {})
    \cup (IF SETsMu.w = g \/ g \in SETsMu.r THEN {"SETsMu"} ELSE {})
    \cup (IF HSETsMu.w = g \/ g \in HSETsMu.r THEN {"HSETsMu"} ELSE {})

\* C19: no goroutine holds more than one of aof.mu, SETsMu and HSETsMu at
\* the same time, the replay of the log included.
C19_AtMostOneLock == \A g \in Goroutines : Cardinality(HeldBy(g)) <= 1

\* the arrays hgetall returns when it reads all of the map m at once
SnapshotResults(m) == {ArrayValue(Pairs(m, o)) : o \in Orders(DOMAIN m)}

\* hgetall has returned an array to goroutine g
HgaReturned(g) ==
    /\ gpc[g] \in {"idle", "r_read"}
    /\ gloc[g].snaps # {}
    /\ gloc[g].res.typ = "array"

\* the array hgetall returned is the content the hash had at one moment of
\* the call
C20_ResultIsSnapshot ==
    \A g \in Callers :
        HgaReturned(g) => \E m \in gloc[g].snaps : gloc[g].res \in SnapshotResults(m)

\* C20: hgetall reads the entries of a hash only while it holds HSETsMu for
\* reading, and the array it returns is the content the hash had at one
\* moment of the call.
C20_HGetAllUnderLock ==
    /\ \A g \in Callers : gpc[g] \in {"hga_range", "hga_iter"} => g \in HSETsMu.r
    /\ C20_ResultIsSnapshot

\* the places of s where a CR LF pair starts
CRLFAt(s) == {i \in 1..(Len(s) - 1) : s[i] = CR /\ s[i + 1] = LF}

\* the place where the first CR LF pair of s starts
FirstCRLF(s) == CHOOSE i \in CRLFAt(s) : \A j \in CRLFAt(s) : i <= j

\* C23: readLine returns the bytes before the first CR LF pair of its input
\* and takes the input up to the end of that pair, no more and no less; a
\* CR that another byte follows does not end the line.
C23_ReadLineStopsAtCRLF ==
    (cpc = "lined" /\ CRLFAt(cbytes) # {})
        => /\ cline.err = "nil"
           /\ cline.line = SubSeq(cbytes, 1, FirstCRLF(cbytes) - 1)
           /\ cline.n = FirstCRLF(cbytes) + 1
           /\ cline.rest = SubSeq(cbytes, FirstCRLF(cbytes) + 2, Len(cbytes))

\* C22: the entry the log gets for a request the decoder returned is one
\* well-framed array: decoding it gives the request back and takes all of
\* its bytes, also when the request holds an element of a type the decoder
\* does not know.
C22_LogEntryWellFramed ==
    (cpc = "logged" /\ cres.v.typ = "array")
        => /\ ~cback.panic
           /\ cback.err = "nil"
           /\ cback.v = cres.v
           /\ cback.rest = <<>>

\* a SET or HSET request with another number of arguments than the handler
\* expects
WrongArityWrite(v) ==
    /\ Len(v.array) > 0
    /\ IsWriteCommand(ToUpper(v.array[1].bulk))
    /\ Len(v.array) - 1 # ExpectedArgs(ToUpper(v.array[1].bulk))

\* the Error set and hset return for it
ArityError(v) ==
    IF ToUpper(v.array[1].bulk) = SET THEN ErrorValue(ErrArgs(<<"s", "e", "t">>))
    ELSE ErrorValue(ErrArgs(<<"h", "s", "e", "t">>))

\* C24: when the handler of a SET or HSET request with a wrong number of
\* arguments runs, the request lies in the log already, the handler returns
\* the Error and both maps stay as they are; when the replay decodes such an
\* entry, the handler returns the same Error and both maps stay as they are.
C24_WrongArityLogged ==
    [][/\ (pc = "handle" /\ pc' = "read" /\ WrongArityWrite(cur))
            => /\ \E l \in logged : l.live /\ l.value = cur /\ InLog(l)
               /\ lastVal' = ArityError(cur)
               /\ SETs' = SETs
               /\ HSETs' = HSETs
       /\ (pc = "replay" /\ \E l \in logged' \ logged : WrongArityWrite(l.value))
            => /\ \A l \in logged' \ logged :
                     HandlerResults(ToUpper(l.value.array[1].bulk), Tail(l.value.array),
                                    SETs, HSETs) = {ArityError(l.value)}
               /\ SETs' = SETs
               /\ HSETs' = HSETs]_vars

\* the log held a SET and an HSET with a wrong number of arguments, the
\* replay left the maps empty, and a SET with three arguments was logged and
\* answered with the Error
C24_Witness ==
    /\ file0 = Marshal(Cmd(SET, <<A, B, A>>)) \o Marshal(Cmd(HSET, <<A, A>>))
    /\ pc = "read"
    /\ lastKind = "handled"
    /\ cur = Cmd(SET, <<A, B, A>>)
    /\ lastVal = ArityError(cur)
    /\ file = file0 \o Marshal(cur)
    /\ SETs = EmptyMap
    /\ HSETs = EmptyMap

\* every request of the connections has been answered
AllAnswered == ~crashed /\ \A g \in Callers : gpc[g] = "idle"

\* the ways to put two sequences into one that keeps the order of each
RECURSIVE Merges(_, _)
Merges(s, t) ==
    IF s = <<>> THEN {t}
    ELSE IF t = <<>> THEN {s}
    ELSE {<<Head(s)>> \o m : m \in Merges(Tail(s), t)}
         \cup {<<Head(t)>> \o m : m \in Merges(s, Tail(t))}

\* the maps the replay of the log leaves, from empty maps
Replayed == [SETs |-> ReplayOf(file).SETs, HSETs |-> ReplayOf(file).HSETs]

\* C21: when two connections have sent SET and HSET requests and all are
\* answered, the replay of the log from empty maps leaves the maps that the
\* requests leave when they are applied one after the other in some order
\* that keeps the order of each connection.
C21_ReplayIsSerialization ==
    (AllAnswered /\ \A g \in Callers : gloc[g].reqs # <<>>)
        => \E o \in Merges(gloc["g1"].reqs, gloc["g2"].reqs) :
               Replayed = ApplyAll(o, EmptyMap, EmptyMap)

\* the connection has sent a SET of key a
SentSetOf(g, k) ==
    \E i \in 1..Len(gloc[g].reqs) :
        /\ ToUpper(gloc[g].reqs[i].array[1].bulk) = SET
        /\ gloc[g].reqs[i].array[2].bulk = k

\* C25: when two connections have sent SET requests of the same key and all
\* are answered, the value SETs holds for the key is the value the replay
\* of the log from empty maps leaves for it.
C25_LiveEqualsReplay ==
    \A k \in {A, B} :
        (AllAnswered /\ \A g \in Callers : SentSetOf(g, k))
            => /\ k \in DOMAIN SETs
               /\ k \in DOMAIN Replayed.SETs
               /\ Replayed.SETs[k] = SETs[k]

\* C26: with goroutines that run when they can and locks that are handed to
\* those that wait, a connection that has taken up a request gets through
\* its locks and answers it.
C26_EveryRequestAnswered ==
    \A g \in Callers : (gpc[g] # "idle") ~> (gpc[g] = "idle")


====
